---------------------------- MODULE Spec2Model ----------------------------
(***************************************************************************)
(* Model of the voice notification tools of ink-gateway:                   *)
(*   .claude-voice/claude_notify.py   the notifier entry point (fallback   *)
(*                                    chain over three execution targets)  *)
(*   .claude-voice/voice_assistant.py ClaudeVoiceAssistant (configuration  *)
(*                                    record, notify, say, speak, setters) *)
(*   .claude-voice/claude_notify_direct.py  the direct notifier (voice     *)
(*                                    flag of the project, mode override)  *)
(*                                                                         *)
(* Python values are modelled as tagged records [kind, val] so that a key  *)
(* may hold a value of any JSON type.  A text (message, template) is a     *)
(* sequence of tokens; the tokens "{name}", "{x}", "{" and "{{" are the    *)
(* pieces str.format treats specially, every other token is plain text.    *)
(***************************************************************************)
EXTENDS Naturals, Sequences, FiniteSets

VARIABLES
    n_pc,        \* claude_notify.py main: "start", "loop", "done"
    n_message,   \* sys.argv[1]
    n_emotion,   \* sys.argv[2], or the default "gentle"
    n_i,         \* index of the next element of commands_to_try
    n_invoked,   \* the targets subprocess.run was called on, in call order
    n_results,   \* the outcome of each of those calls
    n_out,       \* lines printed by main
    n_ret,       \* return value of main: "unset", "None", "True", "False"
    n_raised,    \* an exception escaped main
    file,        \* the configuration file config.json
    disk,        \* the condition of the directory holding it
    pc,          \* assistant process: "new" (not constructed), "ready",
                 \* "called" (a call was made and its record is in out)
    system,      \* platform.system()
    config,      \* ClaudeVoiceAssistant.config
    audio_detector, \* ClaudeVoiceAssistant.audio_detector: "None", "loaded"
    out,         \* what the last call of the assistant did
    d_pc,        \* claude_notify_direct.py main: "start", "gate",
                 \* "construct", "override", "notify", "restore", "send",
                 \* "fallback" (the except branch), "done"
    d_message,   \* sys.argv[1]
    d_emotion,   \* sys.argv[2], or the default "gentle"
    d_project,   \* the file .claude-voice-config.json of the project
    d_enabled,   \* what is_voice_enabled returned
    d_original_mode, \* original_mode of main
    d_tried,     \* the commands send_system_notification of the direct
                 \* notifier ran
    d_log,       \* lines printed by the direct notifier
    d_exit,      \* how main ended: "running", "returned", "exit1"
    o_pc,        \* two overlapping invocations of the tool, each: "new",
                 \* "loaded", "mutated", "opened" (the file is open for
                 \* writing and truncated), "done"
    o_config,    \* the configuration record of each invocation
    o_op,        \* the setter each invocation runs
    o_events,    \* the opens and writes of the file, in the order they
                 \* happened
    sn_pc,       \* one call of _send_system_notification: "idle",
                 \* "start", "returned"
    sn_args,     \* its arguments and what the two commands will do
    sn_result    \* what the call returned and which commands it ran

nvars == <<n_pc, n_message, n_emotion, n_i, n_invoked, n_results, n_out,
           n_ret, n_raised>>
avars == <<file, disk, pc, system, config, audio_detector, out>>
dvars == <<d_pc, d_message, d_emotion, d_project, d_enabled, d_original_mode,
           d_tried, d_log, d_exit>>
ovars == <<o_pc, o_config, o_op, o_events>>
svars == <<sn_pc, sn_args, sn_result>>
vars == <<n_pc, n_message, n_emotion, n_i, n_invoked, n_results, n_out,
          n_ret, n_raised, file, disk, pc, system, config, audio_detector, out,
          d_pc, d_message, d_emotion, d_project, d_enabled, d_original_mode,
          d_tried, d_log, d_exit, o_pc, o_config, o_op, o_events,
          sn_pc, sn_args, sn_result>>

(***************************************************************************)
(* claude_notify.py                                                        *)
(***************************************************************************)

\* The three execution targets, in list order.
commands_to_try_LocalFirst ==
    <<"local_sibling", "global_install", "home_direct">>

commands_to_try == <<"global_install", "local_sibling", "home_direct">>

\* What one subprocess.run(cmd, capture_output, text, timeout=10) can do:
\* return with exit status 0 or not, or raise.
RunOutcomes == {"exit0", "nonzero", "TimeoutExpired", "OSError"}

\* The outcomes of subprocess.run that are exceptions.
RunExceptions == {"TimeoutExpired", "OSError"}

\* The command line of the notifier: no message, a message, a message and
\* an emotion.
NotifierArgv == {<<>>, <<"hello">>, <<"build done">>, <<"hello", "urgent">>,
                 <<"build done", "excited">>}

main_CatchesOnlyTimeout(exc) == exc = "TimeoutExpired"

\* "except Exception" of the loop body: both exception kinds are Exceptions.
main_Catches(exc) == exc \in RunExceptions

\* main up to the loop: usage check, argv defaults.
NotifierStart ==
    /\ n_pc = "start"
    /\ \E argv \in NotifierArgv :
         IF Len(argv) < 1
         THEN /\ n_out' = <<"usage">>
              /\ n_ret' = "None"
              /\ n_pc' = "done"
              /\ UNCHANGED <<n_message, n_emotion>>
         ELSE /\ n_message' = argv[1]
              /\ n_emotion' = IF Len(argv) > 1 THEN argv[2] ELSE "gentle"
              /\ n_pc' = "loop"
              /\ UNCHANGED <<n_out, n_ret>>
    /\ UNCHANGED <<n_i, n_invoked, n_results, n_raised>>

\* One iteration of "for cmd in commands_to_try".
NotifierTry ==
    /\ n_pc = "loop"
    /\ n_i <= Len(commands_to_try)
    /\ \E o \in RunOutcomes, has_stdout \in BOOLEAN :
         /\ n_invoked' = Append(n_invoked, commands_to_try[n_i])
         /\ n_results' = Append(n_results, o)
         /\ IF o = "exit0"
            THEN /\ n_out' = n_out \o <<"sent">> \o
                             (IF has_stdout THEN <<"stdout">> ELSE <<>>)
                 /\ n_ret' = "True"
                 /\ n_pc' = "done"
                 /\ UNCHANGED <<n_i, n_raised>>
            ELSE IF o \in RunExceptions /\ ~main_Catches(o)
            THEN /\ n_raised' = TRUE
                 /\ n_pc' = "done"
                 /\ UNCHANGED <<n_i, n_out, n_ret>>
            ELSE /\ n_i' = n_i + 1
                 /\ UNCHANGED <<n_out, n_ret, n_pc, n_raised>>
    /\ UNCHANGED <<n_message, n_emotion>>

\* The code after the loop: every target failed.
NotifierAllFailed ==
    /\ n_pc = "loop"
    /\ n_i > Len(commands_to_try)
    /\ n_out' = n_out \o <<"failed", "hint">>
    /\ n_ret' = "False"
    /\ n_pc' = "done"
    /\ UNCHANGED <<n_message, n_emotion, n_i, n_invoked, n_results, n_raised>>

NotifierInit ==
    /\ n_pc = "start"
    /\ n_message = ""
    /\ n_emotion = ""
    /\ n_i = 1
    /\ n_invoked = <<>>
    /\ n_results = <<>>
    /\ n_out = <<>>
    /\ n_ret = "unset"
    /\ n_raised = FALSE


(***************************************************************************)
(* voice_assistant.py: values, texts, the configuration file               *)
(***************************************************************************)

\* Python values by type.
S(v) == [kind |-> "str", val |-> v]
B(v) == [kind |-> "bool", val |-> v]
N(v) == [kind |-> "int", val |-> v]
D(v) == [kind |-> "dict", val |-> v]
L(v) == [kind |-> "list", val |-> v]

\* The empty dict.
EmptyDict == [k \in {} |-> S("")]

\* Python truth value of a value ("if x", "x or y", "x and y").
Truthy(v) ==
    CASE v.kind = "bool" -> v.val
      [] v.kind = "str"  -> v.val # ""
      [] v.kind = "int"  -> v.val # 0
      [] v.kind = "dict" -> DOMAIN v.val # {}
      [] v.kind = "list" -> Len(v.val) > 0
      [] OTHER           -> FALSE

\* value == 'literal' on a value of any type.
IsStr(v, s) == v.kind = "str" /\ v.val = s

\* dict.update
DictUpdate(d, u) ==
    [k \in DOMAIN d \cup DOMAIN u |-> IF k \in DOMAIN u THEN u[k] ELSE d[k]]

\* config[key] = value
SetKey(c, key, value) ==
    [k \in DOMAIN c \cup {key} |-> IF k = key THEN value ELSE c[k]]

\* The replacement field of the templates, a field str.format cannot
\* resolve (KeyError), a single brace (ValueError), and the escaped brace.
NamePH == "{name}"
BadFieldTokens == {"{x}", "{"}
EscapedBrace == "{{"

\* message.format(name=assistant_name) raises on a field other than name
\* and on a single brace.
FormatRaises(text) == \E i \in DOMAIN text : text[i] \in BadFieldTokens

\* The exception of the first token format cannot process.
FormatException(text) ==
    LET i == CHOOSE j \in DOMAIN text :
                 /\ text[j] \in BadFieldTokens
                 /\ \A k \in 1..(j - 1) : text[k] \notin BadFieldTokens
    IN  IF text[i] = "{" THEN "ValueError" ELSE "KeyError"

\* message.format(name=assistant_name), when it does not raise.
Format_KeepsPlaceholder(text, name) == text

Format(text, name) ==
    [i \in DOMAIN text |->
        IF text[i] = NamePH THEN name
        ELSE IF text[i] = EscapedBrace THEN "{"
        ELSE text[i]]

\* default_config['prefixes']
DefaultPrefixes ==
    [urgent   |-> "Come and look! ",
     gentle   |-> "Hi, excuse me, ",
     excited  |-> "Great! ",
     worried  |-> "Oh no, ",
     thinking |-> "Hmm... let me think, "]

\* default_config['contextual_messages']
DefaultContextualMessages ==
    [blocked           |-> <<NamePH, " is blocked and needs your help">>,
     need_help         |-> <<NamePH, " needs your help">>,
     task_completed    |-> <<NamePH, " has completed the task">>,
     error             |-> <<NamePH, " hit an error, please check">>,
     git_conflict      |-> <<"Git conflict found, you decide">>,
     test_failed       |-> <<"Tests failed, check the messages">>,
     build_error       |-> <<"Build went wrong, adjust settings">>,
     dependency_issue  |-> <<"Dependency problem, confirm versions">>,
     permission_denied |-> <<"Permission denied, please authorise">>,
     file_not_found    |-> <<"File not found, give the path">>,
     need_user_input   |-> <<"More information needed to go on">>,
     review_required   |-> <<"Code changes done, please review">>,
     deployment_ready  |-> <<"Deployment ready, please confirm">>,
     long_running      |-> <<"Task runs long, please wait">>]

\* load_config: default_config
default_config ==
    [assistant_name      |-> S("XiaoXi"),
     mode                |-> S("full"),
     voice_rate          |-> N(180),
     voice_language      |-> S("zh-TW"),
     emotional_prefix    |-> B(TRUE),
     auto_detect_audio   |-> B(TRUE),
     prefixes            |-> D(DefaultPrefixes),
     hotkey_mode         |-> B(TRUE),
     hotkey              |-> S("F5"),
     contextual_messages |-> D(DefaultContextualMessages)]

\* The file: absent, unparsable, valid JSON that is no object (an array, a
\* number: json.load succeeds and .items() or .get raises), or a JSON object.
AbsentFile == [st |-> "absent", data |-> EmptyDict]
CorruptFile == [st |-> "corrupt", data |-> EmptyDict]
NonObjectFile == [st |-> "nonobject", data |-> EmptyDict]
JsonFile(d) == [st |-> "ok", data |-> d]

\* What writing the file can do: succeed; fail before the file is touched
\* (mkdir or open raises); fail inside json.dump, after open(..., 'w')
\* truncated the file.
WriteOutcomes == {"ok", "open_error", "dump_error"}

\* The condition of the directory decides what a write does: a read-only
\* directory fails open(..., 'w'), a full one fails inside json.dump.
DiskStates == {"ok", "readonly", "full"}
WriteOutcome(d) ==
    CASE d = "ok"       -> "ok"
      [] d = "readonly" -> "open_error"
      [] OTHER          -> "dump_error"

\* save_config, called with the record to write (the caller's argument, or
\* self.config when the argument is None or empty).  Every exception is
\* caught and printed.
save_config(cfg, f, w) ==
    CASE w = "ok"         -> [file |-> JsonFile(cfg), log |-> <<>>,
                              raised |-> "none"]
      [] w = "open_error" -> [file |-> f, log |-> <<"save failed">>,
                              raised |-> "none"]
      [] OTHER            -> [file |-> CorruptFile, log |-> <<"save failed">>,
                              raised |-> "none"]

\* "config = config or self.config" of save_config
SaveTarget(arg, self_config) ==
    IF DOMAIN arg # {} THEN arg ELSE self_config

\* One key of the user's file merged into default_config.
MergeKey(user, k) ==
    IF user[k].kind = "dict" /\ k \in DOMAIN default_config
    THEN D(DictUpdate(default_config[k].val, user[k].val))
    ELSE user[k]

\* The keys on which the merge raises: a dict in the file where the
\* default is no dict has no update method for default_config[key].update.
MergeFailingKeys(user) ==
    {k \in DOMAIN user : /\ user[k].kind = "dict"
                         /\ k \in DOMAIN default_config
                         /\ default_config[k].kind # "dict"}

\* default_config after the keys `done` of the user's file were merged.
Merged(user, done) ==
    [k \in DOMAIN default_config \cup done |->
        IF k \in done THEN MergeKey(user, k) ELSE default_config[k]]

\* What reading the file can do when it exists.
ReadOutcomes == {"ok", "io_error"}

\* The records load_config can return for a file.  The merge runs in the
\* file's key order, which the model does not keep: when a key fails, any
\* set of the other keys may have been merged before it.
LoadResults(f, r) ==
    IF f.st = "absent" THEN {default_config}
    ELSE IF f.st \in {"corrupt", "nonobject"} \/ r = "io_error"
    THEN {default_config}
    ELSE IF MergeFailingKeys(f.data) = {} THEN {Merged(f.data, DOMAIN f.data)}
    ELSE {Merged(f.data, done) :
             done \in SUBSET (DOMAIN f.data \ MergeFailingKeys(f.data))}

\* Whether load_config printed the load failure.
LoadFailed(f, r) ==
    /\ f.st # "absent"
    /\ \/ f.st \in {"corrupt", "nonobject"}
       \/ r = "io_error"
       \/ MergeFailingKeys(f.data) # {}

\* The exception load_config prints after "load failed": reading raised,
\* json.load raised, or .items() or .update() was missing.
LoadException(f, r) ==
    IF r = "io_error" THEN "OSError"
    ELSE IF f.st = "corrupt" THEN "JSONDecodeError"
    ELSE "AttributeError"

load_config_NeverSaves(f, r, w, c) ==
    [config |-> c, file |-> f,
     log |-> IF LoadFailed(f, r) THEN <<"load failed", LoadException(f, r)>>
             ELSE <<>>]

\* load_config for the file f, read outcome r and write outcome w, with c
\* the merged record: the defaults are saved when the file does not exist.
load_config(f, r, w, c) ==
    LET failed == IF LoadFailed(f, r)
                  THEN <<"load failed", LoadException(f, r)>> ELSE <<>>
        saved == save_config(SaveTarget(c, EmptyDict), f, w)
    IN  IF f.st = "absent"
        THEN [config |-> c, file |-> saved.file, log |-> failed \o saved.log]
        ELSE [config |-> c, file |-> f, log |-> failed]

(***************************************************************************)
(* voice_assistant.py: message composition and the two channels            *)
(***************************************************************************)

\* dict.get(key, default) on a configuration record
Get(c, key, dflt) == IF key \in DOMAIN c THEN c[key] ELSE dflt

\* What the audio-device detector can do at the call sites of notify and
\* say: the import fails, or should_enable_voice()['enable'] is true or
\* false.
DetectorOutcomes == {"ImportError", "enable", "disable"}

Muted_Never(c) == FALSE

\* self.config['mode'] == 'off': notify returns at once, say neither
\* prints nor speaks.
Muted(c) == IsStr(c["mode"], "off")

ConsultsDetector_IgnoresSwitch(c) == IsStr(c["mode"], "silent")

\* Whether notify and say consult the detector.
ConsultsDetector(c) ==
    /\ IsStr(c["mode"], "silent")
    /\ Truthy(Get(c, "auto_detect_audio", B(TRUE)))

\* self.audio_detector after the detector was consulted: the import runs
\* only while it is None.
DetectorAfter(ad, det) ==
    IF det = "ImportError" THEN ad ELSE "loaded"

\* effective_mode of notify
effective_mode(c, det) ==
    IF ConsultsDetector(c) /\ det = "enable" THEN S("full") ELSE c["mode"]

\* The lookup of the template raises when contextual_messages is no dict
\* or has no need_help entry (the default of .get is evaluated first).
MessageLookupRaises(c, message) ==
    /\ message = <<>>
    /\ \/ c["contextual_messages"].kind # "dict"
       \/ "need_help" \notin DOMAIN c["contextual_messages"].val

ChooseMessage_ContextFirst(c, message, context) ==
    LET cm == c["contextual_messages"].val
    IN  IF context # "None" /\ context \in DOMAIN cm THEN cm[context]
        ELSE IF message # <<>> THEN message
        ELSE cm["need_help"]

\* "if not message: ..." of notify: the text before substitution.
ChooseMessage(c, message, context) ==
    LET cm == c["contextual_messages"].val
    IN  IF message # <<>> THEN message
        ELSE IF context # "None" /\ context \in DOMAIN cm THEN cm[context]
        ELSE cm["need_help"]

\* assistant_name of notify, as str.format renders it.
AssistantName(c) == Get(c, "assistant_name", S("Claude Code")).val

\* prefixes.get(emotion, '') raises when prefixes is no dict.
PrefixLookupRaises(c, emotion) ==
    /\ Truthy(c["emotional_prefix"])
    /\ emotion # "None"
    /\ c["prefixes"].kind # "dict"

AddPrefix_Appends(c, emotion, text) ==
    IF Truthy(c["emotional_prefix"]) /\ emotion # "None"
    THEN LET p == IF emotion \in DOMAIN c["prefixes"].val
                  THEN c["prefixes"].val[emotion]
                  ELSE ""
         IN  IF p # "" THEN text \o <<p>> ELSE text
    ELSE text

AddPrefix_DefaultsToGentle(c, emotion, text) ==
    IF Truthy(c["emotional_prefix"]) /\ emotion # "None"
    THEN LET p == IF emotion \in DOMAIN c["prefixes"].val
                  THEN c["prefixes"].val[emotion]
                  ELSE DefaultPrefixes["gentle"]
         IN  IF p # "" THEN <<p>> \o text ELSE text
    ELSE text

\* "if self.config['emotional_prefix'] and emotion: ..." of notify and say
AddPrefix(c, emotion, text) ==
    IF Truthy(c["emotional_prefix"]) /\ emotion # "None"
    THEN LET p == IF emotion \in DOMAIN c["prefixes"].val
                  THEN c["prefixes"].val[emotion]
                  ELSE ""
         IN  IF p # "" THEN <<p>> \o text ELSE text
    ELSE text

\* Which outcomes a call reads: the detector's when it is consulted, the
\* notification commands' on Darwin (osascript's after terminal-notifier
\* failed to run or exited non-zero), the speech command's when speak runs.
\* An outcome that is not read is fixed, so that a call is one transition.
ReadsOnly(c, sys, reaches, speaks, det, tn, osa, so) ==
    /\ ConsultsDetector(c) \/ det = "disable"
    /\ (reaches /\ sys = "Darwin") \/ tn = "ok"
    /\ tn \in {"CalledProcessError", "FileNotFoundError"} \/ osa = "ok"
    /\ (reaches /\ speaks) \/ so = "ok"

\* What the two notification commands and the speech command can do.
NotifierOutcomes == {"ok", "CalledProcessError", "FileNotFoundError", "OSError"}
SpeechOutcomes == {"ok", "CalledProcessError", "FileNotFoundError"}

send_system_notification_NoFallback(tn, osa) ==
    CASE tn = "ok" ->
           [result |-> "sent", tried |-> <<"terminal-notifier">>,
            log |-> <<"sent by terminal-notifier">>, raised |-> "none"]
      [] OTHER ->
           [result |-> "error", tried |-> <<"terminal-notifier">>,
            log |-> <<"notification error">>, raised |-> "none"]

send_system_notification_Propagates(tn, osa) ==
    CASE tn = "ok" ->
           [result |-> "sent", tried |-> <<"terminal-notifier">>,
            log |-> <<"sent by terminal-notifier">>, raised |-> "none"]
      [] tn = "OSError" ->
           [result |-> "error", tried |-> <<"terminal-notifier">>,
            log |-> <<"notification error">>, raised |-> "none"]
      [] osa = "ok" ->
           [result |-> "sent", tried |-> <<"terminal-notifier", "osascript">>,
            log |-> <<"sent by osascript">>, raised |-> "none"]
      [] OTHER ->
           [result |-> "none", tried |-> <<"terminal-notifier", "osascript">>,
            log |-> <<>>, raised |-> osa]

\* _send_system_notification(message, assistant_name, interactive=False):
\* terminal-notifier, then osascript; every exception ends in a result.
send_system_notification(tn, osa) ==
    CASE tn = "ok" ->
           [result |-> "sent", tried |-> <<"terminal-notifier">>,
            log |-> <<"sent by terminal-notifier">>, raised |-> "none"]
      [] tn = "OSError" ->
           [result |-> "error", tried |-> <<"terminal-notifier">>,
            log |-> <<"notification error">>, raised |-> "none"]
      [] osa = "ok" ->
           [result |-> "sent", tried |-> <<"terminal-notifier", "osascript">>,
            log |-> <<"sent by osascript">>, raised |-> "none"]
      [] osa = "CalledProcessError" ->
           [result |-> "failed", tried |-> <<"terminal-notifier", "osascript">>,
            log |-> <<"notification failed">>, raised |-> "none"]
      [] OTHER ->
           [result |-> "error", tried |-> <<"terminal-notifier", "osascript">>,
            log |-> <<"notification error">>, raised |-> "none"]

\* speak(text): the platform's speech command, every exception printed.
speak(sys, so) ==
    CASE sys \notin {"Darwin", "Windows", "Linux"} ->
           [speak |-> "no command", log |-> <<>>]
      [] so = "ok" ->
           [speak |-> "ok", log |-> <<>>]
      [] sys = "Linux" /\ so = "FileNotFoundError" ->
           [speak |-> "failed", log |-> <<"install espeak">>]
      [] OTHER ->
           [speak |-> "failed", log |-> <<"speech failed">>]

\* The record kept of a call: its arguments and what it did.
Idle ==
    [op |-> "none", message |-> <<>>, context |-> "None", emotion |-> "None",
     voice_only |-> FALSE, raised |-> "none", composed |-> <<>>,
     block |-> FALSE, notif |-> "skipped", tried |-> <<>>,
     eff_full |-> FALSE, speak |-> "skipped", existed |-> TRUE, log |-> <<>>,
     det |-> "not consulted"]

Call(op, message, context, emotion, voice_only) ==
    [Idle EXCEPT !.op = op, !.message = message, !.context = context,
                 !.emotion = emotion, !.voice_only = voice_only]

\* notify(message, context, emotion) on the record c, on platform sys,
\* with the outcomes of the detector, the notification commands and the
\* speech command.
notify(c, a, sys, det, tn, osa, so) ==
    LET call == [Call("notify", a.message, a.context, a.emotion, FALSE)
                    EXCEPT !.det = IF ConsultsDetector(c) THEN det
                                   ELSE "not consulted"]
        eff == effective_mode(c, det)
        heard == IF ConsultsDetector(c) /\ det = "enable"
                 THEN <<"audio device found">> ELSE <<>>
        text == Format(ChooseMessage(c, a.message, a.context), AssistantName(c))
        full == AddPrefix(c, a.emotion, text)
        sent == IF sys = "Darwin" THEN send_system_notification(tn, osa)
                ELSE [result |-> "skipped", tried |-> <<>>, log |-> <<>>,
                      raised |-> "none"]
        said == IF IsStr(eff, "full") THEN speak(sys, so)
                ELSE [speak |-> "skipped", log |-> <<>>]
    IN  IF Muted(c) THEN call
        ELSE IF MessageLookupRaises(c, a.message)
        THEN [call EXCEPT !.raised = "KeyError", !.log = heard]
        ELSE IF FormatRaises(ChooseMessage(c, a.message, a.context))
        THEN [call EXCEPT !.raised = FormatException(
                                ChooseMessage(c, a.message, a.context)),
                          !.log = heard]
        ELSE IF PrefixLookupRaises(c, a.emotion)
        THEN [call EXCEPT !.raised = "AttributeError", !.log = heard]
        ELSE IF sent.raised # "none"
        THEN [call EXCEPT !.raised = sent.raised, !.composed = full,
                          !.block = TRUE, !.tried = sent.tried,
                          !.eff_full = IsStr(eff, "full"),
                          !.log = heard \o <<"message block">>]
        ELSE [call EXCEPT !.composed = full, !.block = TRUE,
                          !.notif = sent.result, !.tried = sent.tried,
                          !.eff_full = IsStr(eff, "full"),
                          !.speak = said.speak,
                          !.log = heard \o <<"message block">> \o sent.log
                                  \o said.log]

\* say(message, emotion, voice_only)
say(c, a, sys, det, so) ==
    LET call == Call("say", a.message, "None", a.emotion, a.voice_only)
        full == AddPrefix(c, a.emotion, a.message)
        shown == ~a.voice_only /\ ~Muted(c)
        speaks == /\ ~Muted(c)
                  /\ \/ ConsultsDetector(c) /\ det = "enable"
                     \/ ~ConsultsDetector(c) /\ IsStr(c["mode"], "full")
        heard == IF ConsultsDetector(c) /\ det = "enable" /\ ~a.voice_only
                 THEN <<"audio device found">> ELSE <<>>
        said == IF speaks THEN speak(sys, so)
                ELSE [speak |-> "skipped", log |-> <<>>]
    IN  IF PrefixLookupRaises(c, a.emotion)
        THEN [call EXCEPT !.raised = "AttributeError"]
        ELSE [call EXCEPT !.composed = full, !.block = shown,
                          !.eff_full = speaks, !.speak = said.speak,
                          !.det = IF ConsultsDetector(c) THEN det
                                  ELSE "not consulted",
                          !.log = (IF shown THEN <<"message block">> ELSE <<>>)
                                  \o heard \o said.log]

(***************************************************************************)
(* voice_assistant.py: the assistant object and its operations             *)
(***************************************************************************)

\* The contents config.json can have before the tool runs: written by the
\* user, or left by an earlier run.
UserFiles ==
    { [mode |-> S("silent")],
      [mode |-> S("normal")],
      [assistant_name |-> S("Ann"), emotional_prefix |-> B(FALSE)],
      [prefixes |-> D([calm |-> "Easy now, ", gentle |-> ""])],
      [contextual_messages |-> D([deploy |-> <<"Deploy of ", NamePH, " done">>]),
       auto_detect_audio |-> B(FALSE), mode |-> S("silent")],
      [my_devices |-> L(<<"AirPods">>), mode |-> S("off")],
      [mode |-> D([level |-> "full"]), assistant_name |-> S("Ann")],
      [prefixes |-> S("none")],
      [prefixes |-> D([calm |-> NamePH])] }

InitialFiles == {AbsentFile, CorruptFile} \cup {JsonFile(u) : u \in UserFiles}

Systems == {"Darwin", "Linux", "Windows"}

\* Arguments of notify: the message (<<>> for None or ''), the context
\* key and the emotion ("None" when not given).
NotifyMessages == {<<>>, <<"please look">>, <<NamePH, " says hi">>, <<"{x}">>,
                   <<"json ", EscapedBrace>>}
Contexts == {"None", "blocked", "git_conflict", "no_such_context"}
Emotions == {"None", "gentle", "calm"}

NotifyArgs ==
    {a \in [message : NotifyMessages, context : Contexts, emotion : Emotions] :
        a.message # <<>> => a.context \in {"None", "blocked"}}

SayArgs ==
    [message : NotifyMessages \ {<<>>}, emotion : Emotions, voice_only : BOOLEAN]

\* Arguments of set_mode, update_config, add_device and remove_device.
ModeArgs == {"full", "silent", "off", "loud"}
UpdateArgs ==
    { <<"mode", S("loud")>>, <<"emotional_prefix", B(FALSE)>> }
Devices == {"AirPods"}

\* ClaudeVoiceAssistant(): load_config, audio_detector = None.
Construct ==
    /\ pc = "new"
    /\ \E r \in ReadOutcomes :
         /\ file.st = "ok" \/ r = "ok"
         /\ \E c \in LoadResults(file, r) :
              LET res == load_config(file, r, WriteOutcome(disk), c)
              IN  /\ config' = res.config
                  /\ file' = res.file
                  /\ out' = [Idle EXCEPT !.op = "load_config",
                                          !.existed = (file.st # "absent"),
                                          !.log = res.log]
    /\ pc' = "called"
    /\ audio_detector' = "None"
    /\ UNCHANGED <<disk, system, nvars, dvars, ovars, svars>>

set_mode_AcceptsAny(c, f, mode, w) ==
    LET c2 == SetKey(c, "mode", S(mode))
        saved == save_config(SaveTarget(EmptyDict, c2), f, w)
    IN  [config |-> c2, file |-> saved.file,
         log |-> saved.log \o <<"mode switched">>]

\* set_mode(mode)
set_mode(c, f, mode, w) ==
    IF mode \in {"full", "silent", "off"}
    THEN LET c2 == SetKey(c, "mode", S(mode))
             saved == save_config(SaveTarget(EmptyDict, c2), f, w)
         IN  [config |-> c2, file |-> saved.file,
              log |-> saved.log \o <<"mode switched">>]
    ELSE [config |-> c, file |-> f, log |-> <<"invalid mode">>]

SetMode ==
    /\ pc = "ready"
    /\ \E mode \in ModeArgs :
         LET res == set_mode(config, file, mode, WriteOutcome(disk))
         IN  /\ config' = res.config
             /\ file' = res.file
             /\ out' = [Idle EXCEPT !.op = "set_mode", !.message = <<mode>>,
                                     !.log = res.log]
    /\ pc' = "called"
    /\ UNCHANGED <<disk, system, audio_detector, nvars, dvars, ovars, svars>>

update_config_SkipsSave(c, f, key, value, w) ==
    [config |-> SetKey(c, key, value), file |-> f, log |-> <<"updated">>]

\* update_config(key, value)
update_config(c, f, key, value, w) ==
    LET c2 == SetKey(c, key, value)
        saved == save_config(SaveTarget(EmptyDict, c2), f, w)
    IN  [config |-> c2, file |-> saved.file,
         log |-> saved.log \o <<"updated">>]

UpdateConfig ==
    /\ pc = "ready"
    /\ \E kv \in UpdateArgs :
         LET res == update_config(config, file, kv[1], kv[2], WriteOutcome(disk))
         IN  /\ config' = res.config
             /\ file' = res.file
             /\ out' = [Idle EXCEPT !.op = "update_config", !.log = res.log]
    /\ pc' = "called"
    /\ UNCHANGED <<disk, system, audio_detector, nvars, dvars, ovars, svars>>

\* self.config.get('my_devices', [])
my_devices(c) == Get(c, "my_devices", L(<<>>)).val

InSeq(x, seq) == \E i \in DOMAIN seq : seq[i] = x

\* list.remove(x): the first occurrence of x is taken out.
RemoveFirst(seq, x) ==
    LET i == CHOOSE j \in DOMAIN seq :
                 seq[j] = x /\ \A k \in 1..(j - 1) : seq[k] # x
    IN  SubSeq(seq, 1, i - 1) \o SubSeq(seq, i + 1, Len(seq))

add_device_AlwaysAppends(c, f, device_name, w) ==
    LET c2 == SetKey(c, "my_devices", L(Append(my_devices(c), device_name)))
        saved == save_config(SaveTarget(EmptyDict, c2), f, w)
    IN  [config |-> c2, file |-> saved.file,
         log |-> saved.log \o <<"device added">>]

\* add_device(device_name)
add_device(c, f, device_name, w) ==
    IF ~InSeq(device_name, my_devices(c))
    THEN LET c2 == SetKey(c, "my_devices",
                          L(Append(my_devices(c), device_name)))
             saved == save_config(SaveTarget(EmptyDict, c2), f, w)
         IN  [config |-> c2, file |-> saved.file,
              log |-> saved.log \o <<"device added">>]
    ELSE [config |-> c, file |-> f, log |-> <<"device exists">>]

AddDevice ==
    /\ pc = "ready"
    /\ \E d \in Devices :
         LET res == add_device(config, file, d, WriteOutcome(disk))
         IN  /\ config' = res.config
             /\ file' = res.file
             /\ out' = [Idle EXCEPT !.op = "add_device", !.log = res.log]
    /\ pc' = "called"
    /\ UNCHANGED <<disk, system, audio_detector, nvars, dvars, ovars, svars>>

\* remove_device(device_name)
remove_device(c, f, device_name, w) ==
    IF InSeq(device_name, my_devices(c))
    THEN LET c2 == SetKey(c, "my_devices",
                          L(RemoveFirst(my_devices(c), device_name)))
             saved == save_config(SaveTarget(EmptyDict, c2), f, w)
         IN  [config |-> c2, file |-> saved.file,
              log |-> saved.log \o <<"device removed">>]
    ELSE [config |-> c, file |-> f, log |-> <<"device not found">>]

RemoveDevice ==
    /\ pc = "ready"
    /\ \E d \in Devices :
         LET res == remove_device(config, file, d, WriteOutcome(disk))
         IN  /\ config' = res.config
             /\ file' = res.file
             /\ out' = [Idle EXCEPT !.op = "remove_device", !.log = res.log]
    /\ pc' = "called"
    /\ UNCHANGED <<disk, system, audio_detector, nvars, dvars, ovars, svars>>

\* Whether notify gets as far as the message block and the two channels.
NotifyComposes(c, a) ==
    /\ ~Muted(c)
    /\ ~MessageLookupRaises(c, a.message)
    /\ ~FormatRaises(ChooseMessage(c, a.message, a.context))
    /\ ~PrefixLookupRaises(c, a.emotion)

\* notify(...).  An outcome that the call does not read is fixed, so that
\* it is not counted twice.
Notify ==
    /\ pc = "ready"
    /\ \E a \in NotifyArgs, det \in DetectorOutcomes, tn \in NotifierOutcomes,
          osa \in NotifierOutcomes \ {"OSError"}, so \in SpeechOutcomes :
         /\ det = "ImportError" => audio_detector = "None"
         /\ ReadsOnly(config, system, NotifyComposes(config, a),
                      IsStr(effective_mode(config, det), "full"),
                      det, tn, osa, so)
         /\ out' = notify(config, a, system, det, tn, osa, so)
         /\ audio_detector' =
              IF ConsultsDetector(config) THEN DetectorAfter(audio_detector, det)
              ELSE audio_detector
    /\ pc' = "called"
    /\ UNCHANGED <<file, disk, system, config, nvars, dvars, ovars, svars>>

\* say(...)
Say ==
    /\ pc = "ready"
    /\ \E a \in SayArgs, det \in DetectorOutcomes, so \in SpeechOutcomes :
         /\ det = "ImportError" => audio_detector = "None"
         /\ ReadsOnly(config, system,
                      ~Muted(config) /\ ~PrefixLookupRaises(config, a.emotion),
                      IsStr(effective_mode(config, det), "full"),
                      det, "ok", "ok", so)
         /\ out' = say(config, a, system, det, so)
         /\ audio_detector' =
              IF ConsultsDetector(config) /\ ~PrefixLookupRaises(config, a.emotion)
              THEN DetectorAfter(audio_detector, det)
              ELSE audio_detector
    /\ pc' = "called"
    /\ UNCHANGED <<file, disk, system, config, nvars, dvars, ovars, svars>>

\* The call returns to its caller, which goes on to the next call.  A
\* call that raised has no caller to return to: main of voice_assistant.py
\* catches nothing, the exception ends the process.
Return ==
    /\ pc = "called"
    /\ out.raised = "none"
    /\ pc' = "ready"
    /\ out' = Idle
    /\ UNCHANGED <<file, disk, system, config, audio_detector, nvars, dvars, ovars, svars>>

\* The process ends; the next run of the tool constructs a new assistant
\* on the same file.
Exit ==
    /\ pc \in {"ready", "called"}
    /\ pc' = "new"
    /\ config' = EmptyDict
    /\ audio_detector' = "None"
    /\ out' = Idle
    /\ UNCHANGED <<file, disk, system, nvars, dvars, ovars, svars>>

AssistantInit ==
    /\ file \in InitialFiles
    /\ disk \in DiskStates
    /\ pc = "new"
    /\ system \in Systems
    /\ config = EmptyDict
    /\ audio_detector = "None"
    /\ out = Idle

(***************************************************************************)
(* voice_assistant.py: the setters on a wider range of files and arguments *)
(***************************************************************************)

\* More contents of config.json: an entry of a default mapping replaced, a
\* list of two devices, a dict and a string where the default is a number,
\* a dict under a key that has no default.
MoreUserFiles ==
    { [prefixes |-> D([gentle |-> "Psst, "])],
      [my_devices |-> L(<<"AirPods", "Speaker">>)],
      [voice_rate |-> D([fast |-> "200"]), hotkey |-> S("F6")],
      [voice_rate |-> S("fast")],
      [extras |-> D([theme |-> "dark"])] }

SetterFiles ==
    InitialFiles \cup {NonObjectFile} \cup {JsonFile(u) : u \in MoreUserFiles}

\* Values update_config is called with: those of UpdateArgs, a mapping
\* that extends the default prefixes, one that has a single entry, and a
\* mapping under a key whose default is a string.
WideUpdateArgs ==
    UpdateArgs \cup
    { <<"prefixes", D(DictUpdate(DefaultPrefixes, [calm |-> "Easy now, "]))>>,
      <<"prefixes", D([calm |-> "Easy now, "])>>,
      <<"hotkey", D([key |-> "F6"])>> }

DeviceNames == {"AirPods", "Speaker"}

\* update_config(key, value) over WideUpdateArgs
UpdateConfigWide ==
    /\ pc = "ready"
    /\ \E kv \in WideUpdateArgs :
         LET res == update_config(config, file, kv[1], kv[2], WriteOutcome(disk))
         IN  /\ config' = res.config
             /\ file' = res.file
             /\ out' = [Idle EXCEPT !.op = "update_config", !.log = res.log]
    /\ pc' = "called"
    /\ UNCHANGED <<disk, system, audio_detector, nvars, dvars, ovars, svars>>

\* add_device(device_name) over DeviceNames
AddDeviceWide ==
    /\ pc = "ready"
    /\ \E d \in DeviceNames :
         LET res == add_device(config, file, d, WriteOutcome(disk))
         IN  /\ config' = res.config
             /\ file' = res.file
             /\ out' = [Idle EXCEPT !.op = "add_device", !.message = <<d>>,
                                     !.log = res.log]
    /\ pc' = "called"
    /\ UNCHANGED <<disk, system, audio_detector, nvars, dvars, ovars, svars>>

\* remove_device(device_name) over DeviceNames
RemoveDeviceWide ==
    /\ pc = "ready"
    /\ \E d \in DeviceNames :
         LET res == remove_device(config, file, d, WriteOutcome(disk))
         IN  /\ config' = res.config
             /\ file' = res.file
             /\ out' = [Idle EXCEPT !.op = "remove_device", !.message = <<d>>,
                                     !.log = res.log]
    /\ pc' = "called"
    /\ UNCHANGED <<disk, system, audio_detector, nvars, dvars, ovars, svars>>

\* The assistant before construction, on one of SetterFiles.
SetterInit ==
    /\ file \in SetterFiles
    /\ disk \in DiskStates
    /\ pc = "new"
    /\ system = "Darwin"
    /\ config = EmptyDict
    /\ audio_detector = "None"
    /\ out = Idle

(***************************************************************************)
(* claude_notify_direct.py                                                 *)
(***************************************************************************)

\* The command line of the direct notifier: n arguments after the script
\* name, the message as a text ('' is <<>>), the emotion ('' is "None").
DirectMessages == {<<>>, <<"please look">>, <<"{x}">>}
DirectArgv ==
    {[n |-> 0, message |-> <<>>, emotion |-> "None"]}
    \cup {[n |-> 1, message |-> t, emotion |-> "None"] : t \in DirectMessages}
    \cup {[n |-> 2, message |-> <<"please look">>, emotion |-> e] :
             e \in {"calm", "None"}}

\* The contents .claude-voice-config.json can have.
ProjectFiles ==
    {AbsentFile, CorruptFile, NonObjectFile,
     JsonFile([voice_enabled |-> B(FALSE)]),
     JsonFile([voice_enabled |-> B(TRUE)]),
     JsonFile([voice_enabled |-> N(0)]),
     JsonFile([theme |-> S("dark")])}

is_voice_enabled_FailsClosed(pf, r) ==
    IF pf.st = "absent"
    THEN [enabled |-> B(TRUE), log |-> <<"no project file, enabled">>]
    ELSE IF pf.st \in {"corrupt", "nonobject"} \/ r = "io_error"
    THEN [enabled |-> B(FALSE), log |-> <<"check failed", "enabled by default">>]
    ELSE LET enabled == Get(pf.data, "voice_enabled", B(TRUE))
         IN  [enabled |-> enabled,
              log |-> <<IF Truthy(enabled) THEN "read: enabled"
                        ELSE "read: disabled">>]

\* is_voice_enabled(): the value returned and the lines printed.
is_voice_enabled(pf, r) ==
    IF pf.st = "absent"
    THEN [enabled |-> B(TRUE), log |-> <<"no project file, enabled">>]
    ELSE IF pf.st \in {"corrupt", "nonobject"} \/ r = "io_error"
    THEN [enabled |-> B(TRUE), log |-> <<"check failed", "enabled by default">>]
    ELSE LET enabled == Get(pf.data, "voice_enabled", B(TRUE))
         IN  [enabled |-> enabled,
              log |-> <<IF Truthy(enabled) THEN "read: enabled"
                        ELSE "read: disabled">>]

\* What subprocess.run(..., check=False) without a timeout can do in
\* send_system_notification of the direct notifier.
DirectRunOutcomes == {"exit0", "nonzero", "FileNotFoundError"}

\* send_system_notification(message) of the direct notifier: osascript is
\* run when running terminal-notifier raised; an exit status is not looked at.
direct_send_system_notification(tn, osa) ==
    IF tn # "FileNotFoundError"
    THEN [tried |-> <<"terminal-notifier">>, log |-> <<"notification sent">>]
    ELSE IF osa # "FileNotFoundError"
    THEN [tried |-> <<"terminal-notifier", "osascript">>,
          log |-> <<"notification sent (AppleScript)">>]
    ELSE [tried |-> <<"terminal-notifier", "osascript">>,
          log |-> <<"notification failed">>]

\* original_mode in ['normal', 'silent']
Overridden(mode) == IsStr(mode, "normal") \/ IsStr(mode, "silent")

\* main: the usage check and the argv defaults.
DirectStart ==
    /\ d_pc = "start"
    /\ \E argv \in DirectArgv :
         IF argv.n < 1
         THEN /\ d_log' = <<"usage">>
              /\ d_exit' = "exit1"
              /\ d_pc' = "done"
              /\ UNCHANGED <<d_message, d_emotion>>
         ELSE /\ d_message' = argv.message
              /\ d_emotion' = IF argv.n > 1 THEN argv.emotion ELSE "gentle"
              /\ d_log' = <<"sending", "emotion">>
              /\ d_pc' = "gate"
              /\ UNCHANGED d_exit
    /\ UNCHANGED <<d_project, d_enabled, d_original_mode, d_tried, avars, nvars, ovars, svars>>

\* main: "if not is_voice_enabled(): return"
DirectGate ==
    /\ d_pc = "gate"
    /\ \E r \in ReadOutcomes :
         /\ d_project.st = "ok" \/ r = "ok"
         /\ LET res == is_voice_enabled(d_project, r)
            IN  /\ d_enabled' = res.enabled
                /\ IF Truthy(res.enabled)
                   THEN /\ d_log' = d_log \o res.log
                        /\ d_pc' = "construct"
                        /\ UNCHANGED d_exit
                   ELSE /\ d_log' = d_log \o res.log \o <<"skipped">>
                        /\ d_pc' = "done"
                        /\ d_exit' = "returned"
    /\ UNCHANGED <<d_message, d_emotion, d_project, d_original_mode, d_tried,
                   avars, nvars, ovars, svars>>

\* main: assistant = ClaudeVoiceAssistant()
DirectConstruct ==
    /\ d_pc = "construct"
    /\ pc = "new"
    /\ \E r \in ReadOutcomes :
         /\ file.st = "ok" \/ r = "ok"
         /\ \E c \in LoadResults(file, r) :
              LET res == load_config(file, r, WriteOutcome(disk), c)
              IN  /\ config' = res.config
                  /\ file' = res.file
                  /\ out' = [Idle EXCEPT !.op = "load_config",
                                          !.existed = (file.st # "absent"),
                                          !.log = res.log]
    /\ pc' = "called"
    /\ audio_detector' = "None"
    /\ d_pc' = "override"
    /\ UNCHANGED <<disk, system, d_message, d_emotion, d_project, d_enabled,
                   d_original_mode, d_tried, d_log, d_exit, nvars, ovars, svars>>

\* main: original_mode is read and the mode is set to full for the call.
DirectOverride ==
    /\ d_pc = "override"
    /\ d_original_mode' = Get(config, "mode", S("normal"))
    /\ config' = IF Overridden(Get(config, "mode", S("normal")))
                 THEN SetKey(config, "mode", S("full"))
                 ELSE config
    /\ d_log' = d_log \o <<"using mode">>
    /\ d_pc' = "notify"
    /\ pc' = "ready"
    /\ out' = Idle
    /\ UNCHANGED <<file, disk, system, audio_detector, d_message, d_emotion,
                   d_project, d_enabled, d_tried, d_exit, nvars, ovars, svars>>

\* main: assistant.notify(message, emotion=emotion); an exception is
\* caught by "except Exception" of main.
DirectNotify ==
    /\ d_pc = "notify"
    /\ LET a == [message |-> d_message, context |-> "None", emotion |-> d_emotion]
       IN  \E det \in DetectorOutcomes, tn \in NotifierOutcomes,
              osa \in NotifierOutcomes \ {"OSError"}, so \in SpeechOutcomes :
             /\ det = "ImportError" => audio_detector = "None"
             /\ ReadsOnly(config, system, NotifyComposes(config, a),
                          IsStr(effective_mode(config, det), "full"),
                          det, tn, osa, so)
             /\ out' = notify(config, a, system, det, tn, osa, so)
             /\ audio_detector' =
                  IF ConsultsDetector(config)
                  THEN DetectorAfter(audio_detector, det)
                  ELSE audio_detector
    /\ pc' = "called"
    /\ d_log' = d_log \o <<IF out'.raised = "none" THEN "notify returned"
                            ELSE "notify failed">>
    /\ d_pc' = IF out'.raised = "none" THEN "restore" ELSE "fallback"
    /\ UNCHANGED <<file, disk, system, config, d_message, d_emotion, d_project,
                   d_enabled, d_original_mode, d_tried, d_exit, nvars, ovars, svars>>

\* main: the mode is set back to original_mode.
DirectRestore ==
    /\ d_pc = "restore"
    /\ config' = IF Overridden(d_original_mode)
                 THEN SetKey(config, "mode", d_original_mode)
                 ELSE config
    /\ d_pc' = "send"
    /\ UNCHANGED <<file, disk, pc, system, audio_detector, out, d_message,
                   d_emotion, d_project, d_enabled, d_original_mode, d_tried,
                   d_log, d_exit, nvars, ovars, svars>>

\* main: send_system_notification(message), after notify returned or from
\* the except branch; main returns.
DirectSend ==
    /\ d_pc \in {"send", "fallback"}
    /\ \E tn \in DirectRunOutcomes, osa \in DirectRunOutcomes :
         /\ tn = "FileNotFoundError" \/ osa = "exit0"
         /\ LET res == direct_send_system_notification(tn, osa)
            IN  /\ d_tried' = res.tried
                /\ d_log' = d_log \o res.log
    /\ d_pc' = "done"
    /\ d_exit' = "returned"
    /\ UNCHANGED <<d_message, d_emotion, d_project, d_enabled, d_original_mode,
                   avars, nvars, ovars, svars>>

\* The direct notifier before main runs, in a project with one of
\* ProjectFiles.
DirectInit ==
    /\ d_pc = "start"
    /\ d_message = <<>>
    /\ d_emotion = "None"
    /\ d_project \in ProjectFiles
    /\ d_enabled = B(TRUE)
    /\ d_original_mode = S("")
    /\ d_tried = <<>>
    /\ d_log = <<>>
    /\ d_exit = "running"

\* The direct notifier not run.
DirectIdle ==
    /\ d_pc = "start"
    /\ d_message = <<>>
    /\ d_emotion = "None"
    /\ d_project = AbsentFile
    /\ d_enabled = B(TRUE)
    /\ d_original_mode = S("")
    /\ d_tried = <<>>
    /\ d_log = <<>>
    /\ d_exit = "running"

(***************************************************************************)
(* voice_assistant.py: two invocations of the tool on one file             *)
(***************************************************************************)

Procs == {"A", "B"}

\* The sum of the values of a function with a finite domain.
RECURSIVE FnSum(_)
FnSum(f) ==
    IF DOMAIN f = {} THEN 0
    ELSE LET k == CHOOSE j \in DOMAIN f : TRUE
         IN  f[k] + FnSum([j \in DOMAIN f \ {k} |-> f[j]])

\* The number of characters of a text.
TextSize(t) == FnSum([i \in DOMAIN t |-> Len(t[i])])

\* The number of characters json.dump(..., indent=2) writes for a value of
\* the record under the key `key`: a string in quotes, true or false, the
\* digits of a number, and a list or mapping of strings with one entry on a
\* line, indented by four.
ValueSize(key, v) ==
    CASE v.kind = "str"  -> Len(v.val) + 2
      [] v.kind = "bool" -> IF v.val THEN 4 ELSE 5
      [] v.kind = "int"  -> IF v.val < 10 THEN 1 ELSE IF v.val < 100 THEN 2 ELSE 3
      [] v.kind = "list" ->
           IF Len(v.val) = 0 THEN 2
           ELSE 4 + FnSum([i \in DOMAIN v.val |-> Len(v.val[i]) + 8])
      [] OTHER ->
           IF DOMAIN v.val = {} THEN 2
           ELSE 4 + FnSum([e \in DOMAIN v.val |->
                             Len(e) + 12 +
                             (IF key = "contextual_messages"
                              THEN TextSize(v.val[e]) ELSE Len(v.val[e]))])

\* The number of characters of the file save_config writes for a record.
JsonSize(c) ==
    IF DOMAIN c = {} THEN 2
    ELSE 2 + FnSum([k \in DOMAIN c |-> Len(k) + 8 + ValueSize(k, c[k])])

\* open(config_path, 'w'): the file exists and is empty, which json.load
\* cannot parse.
Truncated == CorruptFile

Overwrite_ReplacesFile(f, c) == JsonFile(c)

\* The file after json.dump's text was written from the start of a file
\* that another invocation has written since this one opened it: a longer
\* text of the other is overwritten only as far as this one reaches, and
\* what is left is no JSON.
Overwrite(f, c) ==
    IF f.st = "ok" /\ JsonSize(f.data) > JsonSize(c)
    THEN CorruptFile
    ELSE JsonFile(c)

\* The setter an invocation runs: mode <value>, config --set <key> <value>,
\* config --add-device <value>.
OverlapOps ==
    { [name |-> "set_mode", key |-> "mode", value |-> S("off")],
      [name |-> "update_config", key |-> "emotional_prefix", value |-> B(FALSE)],
      [name |-> "add_device", key |-> "my_devices", value |-> S("AirPods")] }

NoOp == [name |-> "none", key |-> "", value |-> S("")]

\* The record after the setter changed it in memory.
Mutated(c, op) ==
    CASE op.name = "set_mode" ->
           set_mode(c, AbsentFile, op.value.val, "ok").config
      [] op.name = "update_config" ->
           update_config(c, AbsentFile, op.key, op.value, "ok").config
      [] OTHER ->
           add_device(c, AbsentFile, op.value.val, "ok").config

\* Whether the setter calls save_config.
OpSaves(c, op) ==
    op.name = "add_device" => ~InSeq(op.value.val, my_devices(c))

\* The files the two invocations can find: config.json exists.
OverlapFiles ==
    (InitialFiles \ {AbsentFile}) \cup {JsonFile(default_config)}

\* ClaudeVoiceAssistant() of one invocation: load_config reads the file as
\* it is at this moment.
OverlapLoad(p) ==
    /\ o_pc[p] = "new"
    /\ \E c \in LoadResults(file, "ok") :
         LET res == load_config(file, "ok", "ok", c)
         IN  /\ o_config' = [o_config EXCEPT ![p] = res.config]
             /\ file' = res.file
    /\ o_pc' = [o_pc EXCEPT ![p] = "loaded"]
    /\ UNCHANGED <<o_op, o_events, disk, pc, system, config, audio_detector,
                   out, nvars, dvars, svars>>

\* The setter changes the record in memory; one that does not save ends
\* the invocation.
OverlapMutate(p) ==
    /\ o_pc[p] = "loaded"
    /\ \E op \in OverlapOps :
         /\ o_op' = [o_op EXCEPT ![p] = op]
         /\ o_config' = [o_config EXCEPT ![p] = Mutated(o_config[p], op)]
         /\ o_pc' = [o_pc EXCEPT ![p] =
                        IF OpSaves(o_config[p], op) THEN "mutated" ELSE "done"]
    /\ UNCHANGED <<o_events, avars, nvars, dvars, svars>>

\* save_config: open(self.config_path, 'w') truncates the file.
OverlapOpen(p) ==
    /\ o_pc[p] = "mutated"
    /\ file' = Truncated
    /\ o_pc' = [o_pc EXCEPT ![p] = "opened"]
    /\ o_events' = Append(o_events, [proc |-> p, event |-> "open"])
    /\ UNCHANGED <<o_config, o_op, disk, pc, system, config, audio_detector,
                   out, nvars, dvars, svars>>

\* save_config: json.dump's text reaches the file when the with block
\* closes it.
OverlapWrite(p) ==
    /\ o_pc[p] = "opened"
    /\ file' = Overwrite(file, o_config[p])
    /\ o_pc' = [o_pc EXCEPT ![p] = "done"]
    /\ o_events' = Append(o_events, [proc |-> p, event |-> "write"])
    /\ UNCHANGED <<o_config, o_op, disk, pc, system, config, audio_detector,
                   out, nvars, dvars, svars>>

\* Two invocations about to start on an existing file.
OverlapInit ==
    /\ o_pc = [p \in Procs |-> "new"]
    /\ o_config = [p \in Procs |-> EmptyDict]
    /\ o_op = [p \in Procs |-> NoOp]
    /\ o_events = <<>>

(***************************************************************************)
(* _send_system_notification, every variant                                *)
(***************************************************************************)

\* What a dialog command can print: nothing, an empty line, or the label
\* of the button that was clicked.
Stdouts == {"", "\n", "OK\n"}

\* str.strip() on those texts.
Strip(s) == CASE s = "\n" -> "" [] s = "OK\n" -> "OK" [] OTHER -> s

\* The arguments of a call with what terminal-notifier and osascript will
\* do when they are run.
SendArgs ==
    [interactive : BOOLEAN, enable_response : BOOLEAN,
     tn : NotifierOutcomes, osa : NotifierOutcomes,
     tn_stdout : Stdouts, osa_stdout : Stdouts]

NoSendArgs ==
    [interactive |-> FALSE, enable_response |-> FALSE, tn |-> "ok",
     osa |-> "ok", tn_stdout |-> "", osa_stdout |-> ""]

NoSendResult ==
    [result |-> "none", tried |-> <<>>, log |-> <<>>, raised |-> "none"]

\* _send_system_notification(message, assistant_name, interactive,
\* enable_response): with neither flag it is the plain notification; with
\* one of them terminal-notifier's answer, when it printed one, or the
\* dialog's answer is returned.
SystemNotification(a) ==
    IF ~(a.interactive \/ a.enable_response)
    THEN send_system_notification(a.tn, a.osa)
    ELSE CASE a.tn = "ok" ->
                [result |-> IF Strip(a.tn_stdout) # ""
                            THEN Strip(a.tn_stdout) ELSE "sent",
                 tried |-> <<"terminal-notifier">>,
                 log |-> <<"sent by terminal-notifier">>, raised |-> "none"]
           [] a.tn = "OSError" ->
                [result |-> "error", tried |-> <<"terminal-notifier">>,
                 log |-> <<"notification error">>, raised |-> "none"]
           [] a.osa = "ok" ->
                [result |-> Strip(a.osa_stdout),
                 tried |-> <<"terminal-notifier", "osascript">>,
                 log |-> <<"dialog answered">>, raised |-> "none"]
           [] a.osa = "CalledProcessError" ->
                [result |-> "failed",
                 tried |-> <<"terminal-notifier", "osascript">>,
                 log |-> <<"notification failed">>, raised |-> "none"]
           [] OTHER ->
                [result |-> "error",
                 tried |-> <<"terminal-notifier", "osascript">>,
                 log |-> <<"notification error">>, raised |-> "none"]

\* One call of _send_system_notification.
SendNotification ==
    /\ sn_pc = "start"
    /\ sn_result' = SystemNotification(sn_args)
    /\ sn_pc' = "returned"
    /\ UNCHANGED <<sn_args, avars, nvars, dvars, ovars>>

\* A call about to be made with any arguments and any outcomes.
SendInit ==
    /\ sn_pc = "start"
    /\ sn_args \in SendArgs
    /\ sn_result = NoSendResult

\* No call is made.
SendIdle ==
    /\ sn_pc = "idle"
    /\ sn_args = NoSendArgs
    /\ sn_result = NoSendResult

(***************************************************************************)
(* Specifications                                                          *)
(***************************************************************************)

\* The assistant: one run of the tool after another on one file.
AssistantIdle ==
    /\ file = AbsentFile
    /\ disk = "ok"
    /\ pc = "new"
    /\ system = "Darwin"
    /\ config = EmptyDict
    /\ audio_detector = "None"
    /\ out = Idle

Init == AssistantInit /\ NotifierInit /\ DirectIdle /\ OverlapInit /\ SendIdle

Next ==
    \/ Construct
    \/ SetMode
    \/ UpdateConfig
    \/ AddDevice
    \/ RemoveDevice
    \/ Notify
    \/ Say
    \/ Return
    \/ Exit

Spec == Init /\ [][Next]_vars

\* The notifier entry point, one run.
InitNotifier ==
    NotifierInit /\ AssistantIdle /\ DirectIdle /\ OverlapInit /\ SendIdle

NextNotifier ==
    \/ NotifierStart /\ UNCHANGED <<avars, dvars, ovars, svars>>
    \/ NotifierTry /\ UNCHANGED <<avars, dvars, ovars, svars>>
    \/ NotifierAllFailed /\ UNCHANGED <<avars, dvars, ovars, svars>>

SpecNotifier == InitNotifier /\ [][NextNotifier]_vars

\* The configuration commands: construction and the four setters, one run
\* of the tool after another on one file.
InitSetters ==
    SetterInit /\ NotifierInit /\ DirectIdle /\ OverlapInit /\ SendIdle

NextSetters ==
    \/ Construct
    \/ SetMode
    \/ UpdateConfigWide
    \/ AddDeviceWide
    \/ RemoveDeviceWide
    \/ Return
    \/ Exit

SpecSetters == InitSetters /\ [][NextSetters]_vars

\* The direct notifier, one run.
InitDirect ==
    DirectInit /\ AssistantInit /\ NotifierInit /\ OverlapInit /\ SendIdle

NextDirect ==
    \/ DirectStart
    \/ DirectGate
    \/ DirectConstruct
    \/ DirectOverride
    \/ DirectNotify
    \/ DirectRestore
    \/ DirectSend

SpecDirect == InitDirect /\ [][NextDirect]_vars

\* Two invocations of the tool that overlap on one file.
InitOverlap ==
    /\ OverlapInit
    /\ SendIdle
    /\ NotifierInit
    /\ DirectIdle
    /\ file \in OverlapFiles
    /\ disk = "ok"
    /\ pc = "new"
    /\ system = "Darwin"
    /\ config = EmptyDict
    /\ audio_detector = "None"
    /\ out = Idle

NextOverlap ==
    \E p \in Procs :
       \/ OverlapLoad(p)
       \/ OverlapMutate(p)
       \/ OverlapOpen(p)
       \/ OverlapWrite(p)

SpecOverlap == InitOverlap /\ [][NextOverlap]_vars

\* _send_system_notification, one call.
InitSend ==
    /\ SendInit
    /\ NotifierInit
    /\ DirectIdle
    /\ OverlapInit
    /\ AssistantIdle

NextSend == SendNotification

SpecSend == InitSend /\ [][NextSend]_vars

(***************************************************************************)
(* Properties                                                              *)
(***************************************************************************)

\* The keys of the prefixes mapping of a record.
PrefixKeys(c) ==
    IF c["prefixes"].kind = "dict" THEN DOMAIN c["prefixes"].val ELSE {}

\* text starts with the string p.
StartsWith(text, p) == p = "" \/ (Len(text) > 0 /\ text[1] = p)

\* A call of notify or say has composed its message without raising: for
\* notify the message block was printed, say composes in every mode.
Composed ==
    /\ pc = "called"
    /\ out.raised = "none"
    /\ \/ out.op = "notify" /\ out.block
       \/ out.op = "say"

\* The text notify substitutes the name into.
NotifySource == ChooseMessage(config, out.message, out.context)

\* C1: the targets are invoked in the order global install path, local
\* sibling script, home-directory path; a target is invoked only after every
\* earlier one failed, and an exit status 0 is the last invocation: main has
\* returned True and nothing is invoked after it.
C1_FixedOrderFirstSuccessWins ==
    /\ Len(n_invoked) = Len(n_results)
    /\ Len(n_invoked) <= 3
    /\ \A i \in DOMAIN n_invoked :
         n_invoked[i] = <<"global_install", "local_sibling", "home_direct">>[i]
    /\ \A i \in DOMAIN n_results :
         n_results[i] = "exit0" =>
            /\ i = Len(n_results)
            /\ n_ret = "True"
            /\ n_pc = "done"
    /\ n_ret = "True" => /\ Len(n_results) > 0
                         /\ n_results[Len(n_results)] = "exit0"

\* The second target succeeded after the first failed; the third was never
\* invoked.
C1_Witness ==
    /\ n_pc = "done"
    /\ n_ret = "True"
    /\ n_invoked = <<"global_install", "local_sibling">>
    /\ n_results = <<"TimeoutExpired", "exit0">>

\* C2: no exception escapes main, and when all three targets failed, in
\* whatever way each failed, main has printed the failure message and
\* returned False without reporting success.
C2_AllFailReportsFailure ==
    /\ ~n_raised
    /\ (n_pc = "done" /\ Len(n_results) = 3
        /\ \A i \in DOMAIN n_results : n_results[i] # "exit0")
       => /\ n_ret = "False"
          /\ n_out = <<"failed", "hint">>
    /\ (n_pc = "loop" /\ Len(n_results) = 3) => ENABLED (NotifierAllFailed /\ UNCHANGED <<avars, dvars, ovars, svars>>)

\* The three targets failed in the three different ways.
C2_Witness ==
    /\ n_pc = "done"
    /\ n_results = <<"nonzero", "TimeoutExpired", "OSError">>
    /\ n_ret = "False"

\* C3 as stated: under every configuration, a tone that is a key of
\* prefixes makes the composed message start with its prefix.
C3_Original ==
    (Composed /\ out.emotion \in PrefixKeys(config))
       => StartsWith(out.composed, config["prefixes"].val[out.emotion])

\* C3 amended: under every configuration whose emotional_prefix switch is
\* on, a tone that is a key of prefixes makes the message composed by notify
\* and by say start with exactly the prefix mapped to that tone.
C3_PrefixWhenSwitchedOn ==
    (Composed /\ out.emotion \in PrefixKeys(config)
     /\ Truthy(config["emotional_prefix"]))
       => StartsWith(out.composed, config["prefixes"].val[out.emotion])

\* notify composed a message with the prefix of a tone the user's file
\* added to the mapping.
C3_Witness ==
    /\ Composed
    /\ out.op = "notify"
    /\ out.emotion = "calm"
    /\ "calm" \in PrefixKeys(config)
    /\ out.composed = <<"Easy now, ", "please look">>

\* C4 as stated: with a tone that is no key of prefixes, or no tone, the
\* message composed by notify and by say is the name-substituted message.
C4_Original ==
    (Composed /\ out.emotion \notin PrefixKeys(config))
       => out.composed =
            Format(IF out.op = "notify" THEN NotifySource ELSE out.message,
                   AssistantName(config))

\* C4 amended: with a tone that is no key of prefixes, or no tone, nothing
\* is prepended: notify composes the name-substituted message, and say,
\* which substitutes no name, composes the message as it was given.
C4_UnprefixedWhenToneAbsent ==
    (Composed /\ out.emotion \notin PrefixKeys(config))
       => /\ out.op = "notify"
               => out.composed = Format(NotifySource, AssistantName(config))
          /\ out.op = "say" => out.composed = out.message

\* notify with a tone that is in no mapping composed the bare template.
C4_Witness ==
    /\ Composed
    /\ out.op = "notify"
    /\ out.emotion = "calm"
    /\ "calm" \notin PrefixKeys(config)
    /\ out.message = <<>>
    /\ out.context = "blocked"
    /\ out.composed = <<"XiaoXi", " is blocked and needs your help">>

\* C5 as stated: with no literal message and a context key of
\* contextual_messages, the composed message contains the assistant name.
C5_Original ==
    (Composed /\ out.op = "notify" /\ out.message = <<>>
     /\ out.context \in DOMAIN config["contextual_messages"].val)
       => InSeq(AssistantName(config), out.composed)

\* C5 amended: with no literal message and a context key of
\* contextual_messages, a template that holds the name placeholder is
\* composed with the assistant name in its place, and a template without
\* the placeholder is composed as it is, after the prefix if any.
C5_NameSubstitutedWherePlaceholder ==
    (Composed /\ out.op = "notify" /\ out.message = <<>>
     /\ out.context \in DOMAIN config["contextual_messages"].val)
       => LET template == config["contextual_messages"].val[out.context]
              n == Len(out.composed)
              body == SubSeq(out.composed, n - Len(template) + 1, n)
          IN  /\ n >= Len(template)
              /\ ~InSeq(NamePH, body)
              /\ \A i \in DOMAIN template :
                   body[i] = IF template[i] = NamePH
                             THEN AssistantName(config) ELSE template[i]
              /\ InSeq(NamePH, template)
                   => InSeq(AssistantName(config), out.composed)

\* notify composed a template with the name of the user's file in it.
C5_Witness ==
    /\ Composed
    /\ out.op = "notify"
    /\ out.message = <<>>
    /\ out.context = "blocked"
    /\ AssistantName(config) = "Ann"
    /\ out.composed = <<"Ann", " is blocked and needs your help">>

\* C6 as stated: in mode off notify and say do not speak, and the message
\* block that mode full prints is printed all the same.
C6_Original ==
    (pc = "called" /\ out.op \in {"notify", "say"} /\ IsStr(config["mode"], "off")
     /\ ~out.voice_only /\ out.raised = "none"
     /\ (out.op = "notify" =>
            /\ ~MessageLookupRaises(config, out.message)
            /\ ~FormatRaises(NotifySource)
            /\ ~PrefixLookupRaises(config, out.emotion)))
       => /\ out.speak = "skipped"
          /\ out.block

\* C6 amended: in mode off notify and say do not speak, and they print no
\* message block and send no system notification either: the call leaves
\* nothing on any channel or on the console.
C6_OffSilencesEverything ==
    (pc = "called" /\ out.op \in {"notify", "say"} /\ IsStr(config["mode"], "off"))
       => /\ out.speak = "skipped"
          /\ ~out.eff_full
          /\ ~out.block
          /\ out.notif = "skipped"
          /\ out.tried = <<>>
          /\ out.log = <<>>

\* say was called in mode off with an ordinary message.
C6_Witness ==
    /\ pc = "called"
    /\ out.op = "say"
    /\ IsStr(config["mode"], "off")
    /\ ~out.voice_only
    /\ out.message = <<"please look">>
    /\ out.raised = "none"
    /\ ~out.block

\* C7: once notify has composed its message, on Darwin the notification is
\* attempted whatever the speech command does, and with effective mode full
\* speak runs whatever the notification commands did; a failure of either
\* is printed and nothing is raised.
C7_ChannelsIndependent ==
    (pc = "called" /\ out.op = "notify" /\ out.block)
       => /\ out.raised = "none"
          /\ system = "Darwin" =>
               /\ out.notif \in {"sent", "failed", "error"}
               /\ Len(out.tried) > 0
               /\ out.tried[1] = "terminal-notifier"
          /\ system # "Darwin" => out.notif = "skipped"
          /\ out.eff_full <=> out.speak \in {"ok", "failed"}
          /\ out.notif = "failed" => InSeq("notification failed", out.log)
          /\ out.notif = "error" => InSeq("notification error", out.log)
          /\ out.speak = "failed" =>
               \/ InSeq("speech failed", out.log)
               \/ InSeq("install espeak", out.log)

\* Both channels failed in one call: osascript exited non-zero after
\* terminal-notifier was missing, and the speech command failed after that.
C7_Witness ==
    /\ pc = "called"
    /\ out.op = "notify"
    /\ out.block
    /\ out.tried = <<"terminal-notifier", "osascript">>
    /\ out.notif = "failed"
    /\ out.speak = "failed"
    /\ out.log = <<"message block", "notification failed", "speech failed">>

\* A mode that is one of the three literal values.
ModeValid(c) ==
    \E m \in {"full", "silent", "off"} : IsStr(c["mode"], m)

\* C8: a call on an assistant whose mode is one of full, silent, off leaves
\* the mode, in memory and in the file it saved, one of the three.
C8_ModeStaysValid ==
    [][(pc = "ready" /\ ModeValid(config) /\ pc' = "called")
         => /\ ModeValid(config')
            /\ (file' # file /\ file'.st = "ok") => ModeValid(file'.data)]_vars

\* C9: constructed on an absent file, the assistant holds the defaults with
\* mode full and every default key, and the file the write left holds that
\* same record; when the directory refuses the write, the failure is
\* printed and no file is left.
C9_AbsentFileGetsDefaults ==
    (pc = "called" /\ out.op = "load_config" /\ ~out.existed)
       => /\ config["mode"] = S("full")
          /\ DOMAIN config =
               {"assistant_name", "mode", "voice_rate", "voice_language",
                "emotional_prefix", "auto_detect_audio", "prefixes",
                "hotkey_mode", "hotkey", "contextual_messages"}
          /\ config["assistant_name"] = S("XiaoXi")
          /\ config["voice_rate"] = N(180)
          /\ config["emotional_prefix"] = B(TRUE)
          /\ config["auto_detect_audio"] = B(TRUE)
          /\ disk = "ok" => file = JsonFile(config) /\ out.log = <<>>
          /\ disk = "readonly" => file.st = "absent" /\ out.log = <<"save failed">>
          /\ disk = "full" => file.st = "corrupt" /\ out.log = <<"save failed">>
          /\ out.raised = "none"

\* The file was absent and now holds the defaults with mode full.
C9_Witness ==
    /\ pc = "called"
    /\ out.op = "load_config"
    /\ ~out.existed
    /\ file.st = "ok"
    /\ file.data["mode"] = S("full")
    /\ file.data = config

\* C10: no call of the assistant raises.
C10_NothingRaises == out.raised = "none"

\* A setter has changed the record and called save_config: set_mode with a
\* valid mode, update_config, add_device of a new device, remove_device of
\* a present one.
SetterSaved ==
    /\ pc = "called"
    /\ \/ out.op = "set_mode" /\ InSeq("mode switched", out.log)
       \/ out.op = "update_config"
       \/ out.op = "add_device" /\ InSeq("device added", out.log)
       \/ out.op = "remove_device" /\ InSeq("device removed", out.log)

\* The records a new assistant constructed on the file can hold.
Reloaded ==
    {load_config(file, "ok", WriteOutcome(disk), c).config :
        c \in LoadResults(file, "ok")}

\* Every mapping the record holds under a default key stands where the
\* default is a mapping too, and has every entry of the default mapping.
KeepsDefaultEntries(c) ==
    \A k \in DOMAIN c \cap DOMAIN default_config :
        c[k].kind = "dict" =>
           /\ default_config[k].kind = "dict"
           /\ DOMAIN default_config[k].val \subseteq DOMAIN c[k].val

\* C11 as stated, on a directory that accepts the write: after a setter
\* that saves, the file holds the in-memory record and a new assistant
\* constructed on that file holds a record equal to it.
C11_Original ==
    (SetterSaved /\ disk = "ok")
       => /\ file = JsonFile(config)
          /\ Reloaded = {config}

\* C11 amended: after a setter that saves, when the write succeeds the file
\* holds the in-memory record, and a new assistant constructed on that file
\* holds an equal record exactly when every mapping of the record under a
\* default key has all the default entries (load_config merges the default
\* entries back in); when the write fails the failure is printed, the
\* in-memory record keeps the change and the file does not hold it.
C11_SavedRecordReloadsMerged ==
    SetterSaved
       => /\ disk = "ok" =>
               /\ file = JsonFile(config)
               /\ out.log[1] # "save failed"
               /\ KeepsDefaultEntries(config) => Reloaded = {config}
               /\ ~KeepsDefaultEntries(config) => config \notin Reloaded
          /\ disk = "readonly" =>
               /\ file \in SetterFiles
               /\ out.log[1] = "save failed"
          /\ disk = "full" =>
               /\ file = CorruptFile
               /\ out.log[1] = "save failed"
               /\ Reloaded = {default_config}

\* update_config stored a mapping that extends the default prefixes, the
\* file holds the record and a new assistant reads the same record back.
C11_Witness ==
    /\ SetterSaved
    /\ out.op = "update_config"
    /\ disk = "ok"
    /\ "calm" \in PrefixKeys(config)
    /\ "gentle" \in PrefixKeys(config)
    /\ IsStr(config["mode"], "silent")
    /\ file = JsonFile(config)
    /\ Reloaded = {config}

\* The project file says voice_enabled false.
FlagFalse ==
    /\ d_project.st = "ok"
    /\ "voice_enabled" \in DOMAIN d_project.data
    /\ d_project.data["voice_enabled"] = B(FALSE)

\* The project file is absent, has no voice_enabled key, or holds no JSON
\* object.
FlagMissing ==
    \/ d_project.st \in {"absent", "corrupt", "nonobject"}
    \/ d_project.st = "ok" /\ "voice_enabled" \notin DOMAIN d_project.data

\* is_voice_enabled has run and could not read the project file.
FlagUnreadable == InSeq("check failed", d_log)

\* main got past the usage check and is_voice_enabled has returned.
GateDone == d_pc \notin {"start", "gate"} /\ d_exit # "exit1"

\* C12: once the flag was read as false, main has returned and no
\* assistant was constructed, no call of notify was made and no
\* notification command was run; when the project file is absent, lacks the
\* key or could not be read or parsed, main goes on: when it has returned,
\* the assistant was constructed, notify was called (and, with a loaded
\* mode of full, normal or silent and no exception, the speech command was
\* run) and send_system_notification ran terminal-notifier.
C12_GatedByVoiceFlag ==
    /\ (FlagFalse /\ ~FlagUnreadable /\ GateDone)
          => /\ d_pc = "done"
             /\ d_exit = "returned"
             /\ pc = "new"
             /\ config = EmptyDict
             /\ out = Idle
             /\ d_tried = <<>>
             /\ d_log[Len(d_log)] = "skipped"
    /\ ((FlagMissing \/ FlagUnreadable) /\ GateDone)
          => /\ Truthy(d_enabled)
             /\ d_pc = "done" =>
                  /\ d_exit = "returned"
                  /\ pc = "called"
                  /\ config # EmptyDict
                  /\ out.op = "notify"
                  /\ Len(d_tried) >= 1
                  /\ d_tried[1] = "terminal-notifier"
                  /\ (out.raised = "none"
                      /\ (Overridden(d_original_mode)
                          \/ IsStr(d_original_mode, "full")))
                       => out.speak \in {"ok", "failed"}

\* The flag was false: main returned after the gate, with no assistant and
\* no notification.
C12_Witness ==
    /\ FlagFalse
    /\ d_pc = "done"
    /\ d_log = <<"sending", "emotion", "read: disabled", "skipped">>
    /\ pc = "new"
    /\ d_tried = <<>>

\* Both invocations have finished and at least one of them saved.
BothSaved ==
    /\ \A p \in Procs : o_pc[p] = "done"
    /\ Len(o_events) > 0

\* The invocation whose write came last, and the other one.
LastWriter == o_events[Len(o_events)].proc
FirstWriter == CHOOSE p \in Procs : p # LastWriter

\* Both invocations had the file open for writing at the same time: the
\* second open came before the first write.
SavesInterleaved ==
    /\ Len(o_events) = 4
    /\ o_events[1].event = "open"
    /\ o_events[2].event = "open"

\* C13 as stated: after both invocations have finished, the file equals
\* the in-memory record of the invocation that saved last.
C13_Original ==
    BothSaved => file = JsonFile(o_config[LastWriter])

\* C13 amended: after both invocations have finished, the file equals the
\* in-memory record of the invocation whose write came last, unless both
\* had the file open at the same time and the record written last is the
\* shorter text: then the file holds that text followed by the rest of the
\* longer one and is no JSON.  Nothing of the other invocation's record is
\* merged into the file.
C13_LastWriteWinsUnlessInterleaved ==
    BothSaved =>
       IF SavesInterleaved
          /\ JsonSize(o_config[FirstWriter]) > JsonSize(o_config[LastWriter])
       THEN file = CorruptFile
       ELSE file = JsonFile(o_config[LastWriter])

\* A lost update: A switched the mode off and saved, B, which had loaded
\* before A saved, changed emotional_prefix and saved after A; the file is
\* B's record, in which the mode is still full.
C13_Witness ==
    /\ BothSaved
    /\ ~SavesInterleaved
    /\ o_op["A"].name = "set_mode"
    /\ o_op["B"].name = "update_config"
    /\ LastWriter = "B"
    /\ o_config["A"]["mode"] = S("off")
    /\ file = JsonFile(o_config["B"])
    /\ file.data["mode"] = S("full")
    /\ file.data["emotional_prefix"] = B(FALSE)

\* C14: in every call of notify that composed a message, the text behind
\* the prefix is the literal message when one was given, whatever the
\* context key; else the template of the context key when the key is in
\* contextual_messages; else the need_help template; with the assistant
\* name in the place of every name placeholder of that text.  The prefix is
\* put in front as the mapping holds it: the name is not substituted into
\* the prefix.
C14_MessagePrecedence ==
    (pc = "called" /\ out.op = "notify" /\ out.block)
       => LET cm == config["contextual_messages"].val
              source == IF out.message # <<>> THEN out.message
                        ELSE IF out.context \in DOMAIN cm THEN cm[out.context]
                        ELSE cm["need_help"]
              p == IF Truthy(config["emotional_prefix"])
                      /\ out.emotion \in PrefixKeys(config)
                   THEN config["prefixes"].val[out.emotion]
                   ELSE ""
              n == Len(out.composed)
              skip == IF p = "" THEN 0 ELSE 1
          IN  /\ n = Len(source) + skip
              /\ p # "" => out.composed[1] = p
              /\ \A i \in DOMAIN source :
                   out.composed[i + skip] =
                      IF source[i] = NamePH
                      THEN Get(config, "assistant_name", S("Claude Code")).val
                      ELSE IF source[i] = "{{" THEN "{"
                      ELSE source[i]

\* notify was given a literal message with a name placeholder together with
\* a context key of the mapping, and a tone whose prefix is itself the
\* placeholder text: the message was used, with the name in it, behind the
\* prefix as it is.
C14_Witness ==
    /\ pc = "called"
    /\ out.op = "notify"
    /\ out.block
    /\ out.message = <<NamePH, " says hi">>
    /\ out.context = "blocked"
    /\ out.emotion = "calm"
    /\ out.composed = <<NamePH, "XiaoXi", " says hi">>

\* C15: while notify runs the mode is full when the loaded mode was normal
\* or silent and the loaded mode otherwise; once main has returned the
\* in-memory mode is the loaded mode again; and the file never holds the
\* overridden value: under a loaded mode of normal or silent the mode in
\* the file is still that mode.
C15_OverrideIsTemporary ==
    /\ d_pc \in {"notify", "restore", "fallback"} =>
          config["mode"] = IF Overridden(d_original_mode) THEN S("full")
                           ELSE d_original_mode
    /\ (d_pc \in {"send", "done"} /\ pc # "new") =>
          config["mode"] = d_original_mode
    /\ (d_pc \in {"notify", "restore", "fallback", "send", "done"}
        /\ Overridden(d_original_mode)) =>
          /\ file.st = "ok"
          /\ file.data["mode"] = d_original_mode

\* C16: after load_config read an existing file, the record has every
\* default key and nothing was raised; and when the file was read and is a
\* JSON object, every key of it is in the record: with the file's value,
\* or, for a mapping under a key that has a default, with the file's
\* entries over the entries of the default.
C16_MergeOverDefaults ==
    (pc = "called" /\ out.op = "load_config" /\ out.existed)
       => /\ out.raised = "none"
          /\ DOMAIN default_config \subseteq DOMAIN config
          /\ (file.st = "ok" /\ ~InSeq("OSError", out.log)) =>
               \A k \in DOMAIN file.data :
                  /\ k \in DOMAIN config
                  /\ IF file.data[k].kind = "dict" /\ k \in DOMAIN default_config
                     THEN LET dflt == IF default_config[k].kind = "dict"
                                      THEN default_config[k].val
                                      ELSE EmptyDict
                          IN  /\ config[k].kind = "dict"
                              /\ DOMAIN config[k].val =
                                   DOMAIN dflt \cup DOMAIN file.data[k].val
                              /\ \A e \in DOMAIN config[k].val :
                                   config[k].val[e] =
                                      IF e \in DOMAIN file.data[k].val
                                      THEN file.data[k].val[e]
                                      ELSE dflt[e]
                     ELSE config[k] = file.data[k]

\* C17: a call of notify or say in mode silent runs the speech command
\* only when auto_detect_audio is on and the detector answered that voice
\* should be enabled, and then it does run it unless the call raised
\* before; with the detector module missing or auto_detect_audio off
\* nothing is spoken.  No call of notify or say, in any mode, changes the
\* configuration record or the file.
C17_SilentUnmuteIsPerCall ==
    [][(pc = "ready" /\ pc' = "called" /\ out'.op \in {"notify", "say"})
         => /\ config' = config
            /\ file' = file
            /\ IsStr(config["mode"], "silent") =>
                 LET auto == Truthy(Get(config, "auto_detect_audio", B(TRUE)))
                 IN  /\ out'.speak # "skipped" => auto /\ out'.det = "enable"
                     /\ ~auto => out'.speak = "skipped" /\ out'.det = "not consulted"
                     /\ out'.det = "ImportError" => out'.speak = "skipped"
                     /\ out'.det = "disable" => out'.speak = "skipped"
                     /\ (out'.det = "enable" /\ out'.raised = "none"
                         /\ (out'.op = "notify" => out'.block))
                          => out'.speak \in {"ok", "failed"}]_vars

\* say spoke in mode silent because the detector found a device, and the
\* mode in memory and in the file is still silent.
C17_Witness ==
    /\ pc = "called"
    /\ out.op = "say"
    /\ out.det = "enable"
    /\ out.speak = "ok"
    /\ config["mode"] = S("silent")
    /\ file.st = "ok"
    /\ file.data["mode"] = S("silent")

\* C18: a call of set_mode with a value that is none of full, silent, off
\* leaves the record and the file as they were and prints the error line
\* and nothing else; a call with one of the three sets the mode key to it,
\* leaves every other key of the record as it was, and reports the switch.
C18_SetModeValidates ==
    [][(pc = "ready" /\ pc' = "called" /\ out'.op = "set_mode")
         => LET mode == out'.message[1]
            IN  IF mode \notin {"full", "silent", "off"}
                THEN /\ config' = config
                     /\ file' = file
                     /\ out'.log = <<"invalid mode">>
                ELSE /\ config'["mode"] = S(mode)
                     /\ DOMAIN config' = DOMAIN config
                     /\ \A k \in DOMAIN config \ {"mode"} :
                          config'[k] = config[k]
                     /\ out'.log[Len(out'.log)] = "mode switched"
                     /\ disk = "ok" => file' = JsonFile(config')]_vars

\* set_mode was called with a value that is no mode and refused it: the
\* record still has the mode and the name of the user's file.
C18_Witness ==
    /\ pc = "called"
    /\ out.op = "set_mode"
    /\ out.message = <<"loud">>
    /\ out.log = <<"invalid mode">>
    /\ config["mode"] = S("silent")
    /\ file.st = "ok"
    /\ DOMAIN file.data = {"mode"}

\* No name is twice in the list.
NoDuplicates(seq) ==
    \A i \in DOMAIN seq : \A j \in DOMAIN seq : seq[i] = seq[j] => i = j

\* C19: on files whose device list has no duplicate, the list of the
\* record never has one; add_device of a name in the list and
\* remove_device of a name not in it leave the record and the file as they
\* were; add_device of a new name puts it at the end of the list, and
\* remove_device of a name in the list (one that add_device put there
\* included) leaves the name out of the list and the other names in their
\* order.
C19_DevicesStayDistinct ==
    [][/\ NoDuplicates(my_devices(config'))
       /\ (pc = "ready" /\ pc' = "called" /\ out'.op = "add_device") =>
            LET d == out'.message[1]
            IN  IF InSeq(d, my_devices(config))
                THEN /\ config' = config
                     /\ file' = file
                     /\ out'.log = <<"device exists">>
                ELSE /\ my_devices(config') = Append(my_devices(config), d)
                     /\ disk = "ok" => file' = JsonFile(config')
       /\ (pc = "ready" /\ pc' = "called" /\ out'.op = "remove_device") =>
            LET d == out'.message[1]
            IN  IF ~InSeq(d, my_devices(config))
                THEN /\ config' = config
                     /\ file' = file
                     /\ out'.log = <<"device not found">>
                ELSE /\ ~InSeq(d, my_devices(config'))
                     /\ Len(my_devices(config')) = Len(my_devices(config)) - 1
                     /\ \A e \in DeviceNames \ {d} :
                          InSeq(e, my_devices(config'))
                             <=> InSeq(e, my_devices(config))
                     /\ disk = "ok" => file' = JsonFile(config')]_vars

\* add_device was called with a name that earlier calls had put in the
\* list: nothing was added and nothing saved.
C19_Witness ==
    /\ pc = "called"
    /\ out.op = "add_device"
    /\ out.message = <<"Speaker">>
    /\ out.log = <<"device exists">>
    /\ my_devices(config) = <<"Speaker", "AirPods">>
    /\ file = JsonFile(config)

\* terminal-notifier did not do its work: it is not installed or it
\* exited non-zero.
NotifierFailed(o) == o \in {"CalledProcessError", "FileNotFoundError"}

\* C20: every call of _send_system_notification returns a result and raises
\* nothing; terminal-notifier is run first, and osascript is run exactly
\* when terminal-notifier was missing or exited non-zero, so never after it
\* succeeded; a call that asks for no answer returns "sent" when
\* terminal-notifier succeeded or osascript succeeded after it, "failed"
\* when osascript exited non-zero, and "error" in every other case.
C20_TwoStepFallback ==
    sn_pc = "returned"
       => LET a == sn_args
              r == sn_result
          IN  /\ r.raised = "none"
              /\ r.result # "none"
              /\ Len(r.tried) >= 1
              /\ r.tried[1] = "terminal-notifier"
              /\ InSeq("osascript", r.tried) <=> NotifierFailed(a.tn)
              /\ a.tn = "ok" => r.tried = <<"terminal-notifier">>
              /\ ~(a.interactive \/ a.enable_response) =>
                   /\ r.result \in {"sent", "failed", "error"}
                   /\ r.result = "sent"
                        <=> \/ a.tn = "ok"
                            \/ NotifierFailed(a.tn) /\ a.osa = "ok"
                   /\ r.result = "failed"
                        <=> /\ NotifierFailed(a.tn)
                            /\ a.osa = "CalledProcessError"

\* A plain notification for which terminal-notifier was missing and
\* osascript exited non-zero.
C20_Witness ==
    /\ sn_pc = "returned"
    /\ ~sn_args.interactive
    /\ ~sn_args.enable_response
    /\ sn_args.tn = "FileNotFoundError"
    /\ sn_args.osa = "CalledProcessError"
    /\ sn_result.tried = <<"terminal-notifier", "osascript">>
    /\ sn_result.result = "failed"

=============================================================================
